---- MODULE Spec2Model ----
(***************************************************************************)
(* Model of Assignment1.v3.py: the supplier generator (create_blacklist,   *)
(* create_suppliers) and the seeded greedy search (ExhaustiveSearch).      *)
(*                                                                         *)
(* Python lists are objects: every list lives in `heap` under an address,  *)
(* and a variable that holds a list holds its address, so that aliasing    *)
(* (best_set = current_set) and copying (list(self.__blacklist)) are what  *)
(* the code makes them.  Weights are integers counted in units of          *)
(* 10^-(Decimals+SubDigits), so that round(x, 3) has digits to round.      *)
(***************************************************************************)
EXTENDS Integers, Sequences, FiniteSets, TLC

VARIABLES
    pc,             \* position of the program
    n,              \* argument of create_suppliers
    i,              \* loop variable of create_suppliers (range(n))
    blacklist,      \* create_blacklist: local list
    white_list,     \* create_blacklist: local list
    count,          \* create_blacklist: local counter
    Dict,           \* the population: label -> Supplier
    heap,           \* address -> contents of the list object at that address
    supplier,       \* ExhaustiveSearch: position of the outer loop in Dict.values()
    k,              \* ExhaustiveSearch: position of the inner loop in affines
    affines,        \* address of the list iterated by the inner loop
    interference,   \* address of the accumulated blacklist
    current_set,    \* address of the combination being grown
    current_weight,
    best_weight,
    best_set,       \* address of the best combination
    outcome,        \* "running", "returned" or the exception raised
    result,         \* the tuple returned by ExhaustiveSearch
    lastEval        \* history: weight and contents of current_set at the last
                    \* evaluation whose current_weight was >= the best before it

vars == <<pc, n, i, blacklist, white_list, count, Dict, heap, supplier, k, affines,
          interference, current_set, current_weight, best_weight, best_set,
          outcome, result, lastEval>>

(***************************************************************************)
(* Bounds of the model.                                                    *)
(***************************************************************************)
MaxN == 3        \* largest population size
NegN == 1        \* create_suppliers is called with n in -NegN..MaxN
MaxRaw == 15     \* largest value drawn by random.random(), in weight units
SubDigits == 1   \* decimal digits kept below the rounding position

Decimals == 3    \* round(..., 3)

\* 1.0 and one thousandth, in weight units
One == 10 ^ (Decimals + SubDigits)

Thousandth == One \div (10 ^ Decimals)

(***************************************************************************)
(* Python lists.                                                           *)
(***************************************************************************)
Elems(s) == {s[j] : j \in 1..Len(s)}

\* x in list
In(x, s) == x \in Elems(s)

\* list.remove(x): the first occurrence is removed
Remove(s, x) ==
    LET j == CHOOSE j \in 1..Len(s) : s[j] = x /\ \A m \in 1..(j - 1) : s[m] # x
    IN  SubSeq(s, 1, j - 1) \o SubSeq(s, j + 1, Len(s))

\* [m for m in range(1, n + 1)]
Range1(m) == [j \in 1..m |-> j]

RECURSIVE SortedSeq(_)
SortedSeq(S) ==
    IF S = {} THEN <<>>
    ELSE LET m == CHOOSE m \in S : \A x \in S : m <= x
         IN  <<m>> \o SortedSeq(S \ {m})

Alloc(h, a, v) == (a :> v) @@ h

BL(l) == <<"blacklist", l>>
WL(l) == <<"interactions", l>>
AF(l) == <<"affines", l>>
IF_(l) == <<"interference", l>>
CS(l) == <<"current_set", l>>
Empty0 == <<"best_set", 0>>
Tmp == <<"tmp", 0>>
NoRef == <<"none", 0>>

(***************************************************************************)
(* round(x, 3).  A value exactly half way between two thousandths goes to  *)
(* either neighbour: which one depends on the binary value of the float.   *)
(***************************************************************************)
round(x) ==
    LET q == x \div Thousandth
        r == x % Thousandth
    IN  IF 2 * r < Thousandth THEN {q * Thousandth}
        ELSE IF 2 * r > Thousandth THEN {(q + 1) * Thousandth}
        ELSE {q * Thousandth, (q + 1) * Thousandth}

\* random_weight(): round(random.random(), 3)
random_weight == UNION {round(raw) : raw \in {x \in 0..MaxRaw : x < One}}

(***************************************************************************)
(* class Supplier                                                          *)
(***************************************************************************)
Supplier(label, weight, bl, inter) ==
    [label |-> label, weight |-> weight, blacklist |-> bl, interactions |-> inter]

get_label(s) == s.label

get_weight(s) == s.weight

\* list(x): a new list object at address `fresh`
list_copy(h, src, fresh) == [ref |-> fresh, heap |-> Alloc(h, fresh, h[src])]

\* variant: return self.__blacklist, the list itself
get_blacklist_alias(h, s, fresh) == [ref |-> s.blacklist, heap |-> h]

\* return list(self.__blacklist)
get_blacklist(h, s, fresh) == list_copy(h, s.blacklist, fresh)

\* return list(self.__interactions)
get_interactions(h, s, fresh) == list_copy(h, s.interactions, fresh)

(***************************************************************************)
(* create_suppliers / create_blacklist                                     *)
(***************************************************************************)
\* variant: the half rounded up
DrawsWrong(c, m) == c < (m + 1) \div 2

\* while count < n // 2
MoreDraws(c, m) == c < m \div 2

\* for i in range(n): lists = create_blacklist(n, i + 1), up to the while loop
CreateBlacklist ==
    /\ pc = "create_suppliers"
    /\ i < n
    /\ blacklist' = <<>>
    /\ count' = 0
    /\ white_list' = Remove(Range1(n), i + 1)
    /\ pc' = "create_blacklist"
    /\ UNCHANGED <<n, i, Dict, heap, supplier, k, affines, interference, current_set,
                   current_weight, best_weight, best_set, outcome, result, lastEval>>

\* one iteration of the while loop; random.choice draws any element of white_list
\* (the list is never empty here: n // 2 <= n - 1 for n >= 1)
Draw ==
    /\ pc = "create_blacklist"
    /\ MoreDraws(count, n)
    /\ \E j \in 1..Len(white_list) :
          LET number == white_list[j]
          IN  /\ white_list' = Remove(white_list, number)
              /\ blacklist' = Append(blacklist, number)
    /\ count' = count + 1
    /\ UNCHANGED <<pc, n, i, Dict, heap, supplier, k, affines, interference,
                   current_set, current_weight, best_weight, best_set, outcome,
                   result, lastEval>>

\* return (blacklist, white_list); suppliers[i + 1] = Supplier(...)
StoreSupplier ==
    /\ pc = "create_blacklist"
    /\ ~MoreDraws(count, n)
    /\ \E w \in random_weight :
          Dict' = (i + 1 :> Supplier(i + 1, w, BL(i + 1), WL(i + 1))) @@ Dict
    /\ heap' = Alloc(Alloc(heap, BL(i + 1), blacklist), WL(i + 1), white_list)
    /\ i' = i + 1
    /\ pc' = "create_suppliers"
    /\ UNCHANGED <<n, blacklist, white_list, count, supplier, k, affines,
                   interference, current_set, current_weight, best_weight, best_set,
                   outcome, result, lastEval>>

\* return suppliers
ReturnSuppliers ==
    /\ pc = "create_suppliers"
    /\ ~(i < n)
    /\ pc' = "generated"
    /\ UNCHANGED <<n, i, blacklist, white_list, count, Dict, heap, supplier, k,
                   affines, interference, current_set, current_weight, best_weight,
                   best_set, outcome, result, lastEval>>

(***************************************************************************)
(* ExhaustiveSearch                                                        *)
(***************************************************************************)
\* variant: strict comparison
BetterStrict(cw, bw) == cw > bw

\* if current_weight >= best_weight
Better(cw, bw) == cw >= bw

\* variant: = in place of +=
AddWeightAssigned(cw, w) == w

\* current_weight += Dict[affine].get_weight()
AddWeight(cw, w) == cw + w

\* variant: no inverse check
InverseCheckSkipped(h, cs, bl) == TRUE

\* for i in current_set: if i in Dict[affine].get_blacklist(): compatible = False
InverseCheck(h, cs, bl) == \A m \in Elems(h[cs]) : ~In(m, bl)

\* best_weight = 0; best_set = []
EnterSearch ==
    /\ pc = "generated"
    /\ best_weight' = 0
    /\ best_set' = Empty0
    /\ heap' = Alloc(heap, Empty0, <<>>)
    /\ supplier' = 0
    /\ lastEval' = [weight |-> 0, set |-> <<>>]
    /\ pc' = "ExhaustiveSearch"
    /\ UNCHANGED <<n, i, blacklist, white_list, count, Dict, k, affines,
                   interference, current_set, current_weight, outcome, result>>

\* for supplier in Dict.values(): the four assignments before the inner loop
NextSupplier ==
    /\ pc = "ExhaustiveSearch"
    /\ supplier < Cardinality(DOMAIN Dict)
    /\ LET l == supplier + 1
           s == Dict[l]
           a == get_interactions(heap, s, AF(l))
           b == get_blacklist(a.heap, s, IF_(l))
       IN  /\ affines' = a.ref
           /\ interference' = b.ref
           /\ current_weight' = get_weight(s)
           /\ current_set' = CS(l)
           /\ heap' = Alloc(b.heap, CS(l), <<get_label(s)>>)
           /\ supplier' = l
    /\ k' = 0
    /\ pc' = "affines"
    /\ UNCHANGED <<n, i, blacklist, white_list, count, Dict, best_weight, best_set,
                   outcome, result, lastEval>>

\* one iteration of `for affine in affines`
EvalAffine ==
    /\ pc = "affines"
    /\ k < Len(heap[affines])
    /\ LET affine == heap[affines][k + 1]
           blocked == In(affine, heap[interference])
       IN  IF ~blocked /\ affine \notin DOMAIN Dict
           THEN \* Dict[affine] raises KeyError
                /\ outcome' = "KeyError"
                /\ pc' = "done"
                /\ UNCHANGED <<k, heap, current_weight, best_weight, best_set, lastEval>>
           ELSE LET g == IF blocked THEN [ref |-> NoRef, heap |-> heap]
                         ELSE get_blacklist(heap, Dict[affine], Tmp)
                    compatible == ~blocked /\ InverseCheck(g.heap, current_set, g.heap[g.ref])
                    cw == IF compatible
                          THEN AddWeight(current_weight, get_weight(Dict[affine]))
                          ELSE current_weight
                    \* interference += ...: the list object is extended in place
                    h1 == IF compatible
                          THEN [heap EXCEPT ![interference] = @ \o g.heap[g.ref]]
                          ELSE heap
                    \* current_set.append(affine)
                    h2 == IF compatible
                          THEN [h1 EXCEPT ![current_set] = Append(@, affine)]
                          ELSE h1
                IN  /\ current_weight' = cw
                    /\ heap' = h2
                    /\ IF Better(cw, best_weight)
                       THEN best_weight' = cw /\ best_set' = current_set
                       ELSE UNCHANGED <<best_weight, best_set>>
                    /\ lastEval' = IF cw >= best_weight
                                   THEN [weight |-> cw, set |-> h2[current_set]]
                                   ELSE lastEval
                    /\ k' = k + 1
                    /\ UNCHANGED <<pc, outcome>>
    /\ UNCHANGED <<n, i, blacklist, white_list, count, Dict, supplier, affines,
                   interference, current_set, result>>

\* the inner loop is exhausted
EndAffines ==
    /\ pc = "affines"
    /\ ~(k < Len(heap[affines]))
    /\ pc' = "ExhaustiveSearch"
    /\ UNCHANGED <<n, i, blacklist, white_list, count, Dict, heap, supplier, k,
                   affines, interference, current_set, current_weight, best_weight,
                   best_set, outcome, result, lastEval>>

\* return (round(best_weight, 3), best_set)
ReturnBest ==
    /\ pc = "ExhaustiveSearch"
    /\ ~(supplier < Cardinality(DOMAIN Dict))
    /\ \E r \in round(best_weight) : result' = <<r, heap[best_set]>>
    /\ outcome' = "returned"
    /\ pc' = "done"
    /\ UNCHANGED <<n, i, blacklist, white_list, count, Dict, heap, supplier, k,
                   affines, interference, current_set, current_weight, best_weight,
                   best_set, lastEval>>

Search == EnterSearch \/ NextSupplier \/ EvalAffine \/ EndAffines \/ ReturnBest

(***************************************************************************)
(* Initial states.                                                         *)
(***************************************************************************)
Locals0 ==
    /\ i = 0
    /\ blacklist = <<>>
    /\ white_list = <<>>
    /\ count = 0
    /\ supplier = 0
    /\ k = 0
    /\ affines = NoRef
    /\ interference = NoRef
    /\ current_set = NoRef
    /\ current_weight = 0
    /\ best_weight = 0
    /\ best_set = NoRef
    /\ outcome = "running"
    /\ result = <<>>
    /\ lastEval = [weight |-> 0, set |-> <<>>]

\* a population handed to ExhaustiveSearch: m suppliers with weights w, blacklists bl
\* and lists of interactions wl
BuiltDict(m, w) == [l \in 1..m |-> Supplier(l, w[l], BL(l), WL(l))]

BuiltHeap(m, bl, wl) ==
    [a \in {BL(l) : l \in 1..m} \cup {WL(l) : l \in 1..m} |->
        IF a[1] = "blacklist" THEN bl[a[2]] ELSE wl[a[2]]]

\* the weights of a caller-built population: 0.0 and 0.001
CallerWeights == {0, Thousandth}

\* every population of 1..MaxN suppliers in which each supplier's blacklist is a set
\* of other labels and its interactions are the remaining labels, ascending
InitPartitioned ==
    \E m \in 1..MaxN :
      \E inc \in [1..m -> SUBSET (1..m)], w \in [1..m -> CallerWeights] :
        /\ \A l \in 1..m : l \notin inc[l]
        /\ n = m
        /\ Dict = BuiltDict(m, w)
        /\ heap = BuiltHeap(m, [l \in 1..m |-> SortedSeq(inc[l])],
                              [l \in 1..m |-> SortedSeq(((1..m) \ inc[l]) \ {l})])

\* the population of the worked scenario
ScenarioWeights == <<500 * Thousandth, 900 * Thousandth, 200 * Thousandth, 100 * Thousandth>>

ScenarioBlack == << <<2>>, <<1>>, <<4>>, <<3>> >>

ScenarioWhite == << <<3, 4>>, <<3, 4>>, <<1, 2>>, <<1, 2>> >>

InitScenario ==
    /\ n = 4
    /\ Dict = BuiltDict(4, ScenarioWeights)
    /\ heap = BuiltHeap(4, ScenarioBlack, ScenarioWhite)

\* ExhaustiveSearch(Dict) on a population built by the caller
Init ==
    /\ pc = "generated"
    /\ Locals0
    /\ (InitPartitioned \/ InitScenario)

Next == Search

Spec == Init /\ [][Next]_vars

\* test = create_suppliers(n); ExhaustiveSearch(test)
InitGen ==
    /\ pc = "create_suppliers"
    /\ Locals0
    /\ n \in (0 - NegN)..MaxN
    /\ Dict = <<>>
    /\ heap = <<>>

NextGen == CreateBlacklist \/ Draw \/ StoreSupplier \/ ReturnSuppliers \/ Search

SpecGen == InitGen /\ [][NextGen]_vars

\* ExhaustiveSearch(Dict) on a population with dangling labels: the label m + 1, which
\* is no key of Dict, ends the blacklist of the suppliers in gi and the interactions
\* of the suppliers in gc
InitDangling ==
    /\ pc = "generated"
    /\ Locals0
    /\ \E m \in 1..MaxN :
        \E inc \in [1..m -> SUBSET (1..m)], gi \in SUBSET (1..m), gc \in SUBSET (1..m) :
          /\ \A l \in 1..m : l \notin inc[l]
          /\ gi \cup gc # {}
          /\ n = m
          /\ Dict = BuiltDict(m, [l \in 1..m |-> Thousandth])
          /\ heap = BuiltHeap(m,
                [l \in 1..m |-> SortedSeq(inc[l] \cup (IF l \in gi THEN {m + 1} ELSE {}))],
                [l \in 1..m |-> SortedSeq((((1..m) \ inc[l]) \ {l})
                                           \cup (IF l \in gc THEN {m + 1} ELSE {}))])

SpecDangling == InitDangling /\ [][Next]_vars

(***************************************************************************)
(* Properties.                                                             *)
(***************************************************************************)
Returned == pc = "done" /\ outcome = "returned"

Blacklist(l) == heap[Dict[l].blacklist]

Interactions(l) == heap[Dict[l].interactions]

RECURSIVE SumWeights(_)
SumWeights(s) ==
    IF s = <<>> THEN 0 ELSE Dict[Head(s)].weight + SumWeights(Tail(s))

\* C1 (lower bound): the weight returned by the search is at least the weight of
\* every single supplier of the population.
C1_LowerBound ==
    Returned => \A l \in DOMAIN Dict : result[1] >= Dict[l].weight

\* C2 (sum consistency): the weight returned by the search is the sum of the weights
\* of the labels of the returned set, although best_set is the list current_set
\* itself and not a copy of it.
C2_SumConsistency ==
    Returned => result[1] = SumWeights(result[2])

\* the returned set is a current_set that grew after best_set first referred to it
C2_Witness ==
    /\ Returned
    /\ Len(result[2]) >= 3
    /\ result[1] >= 2 * Thousandth

\* C3 (internal compatibility): in the returned set, every member after the first is
\* one of the seed's interactions, is in the blacklist of no earlier member, has no
\* earlier member in its own blacklist, and no label occurs twice.
C3_InternalCompatibility ==
    Returned =>
        LET b == result[2]
        IN  \A j \in 2..Len(b) :
              /\ In(b[j], Interactions(b[1]))
              /\ \A m \in 1..(j - 1) :
                    /\ ~In(b[j], Blacklist(b[m]))
                    /\ ~In(b[m], Blacklist(b[j]))
                    /\ b[m] # b[j]

\* a returned set of two or more, whose seed had a candidate that was not accepted
C3_Witness ==
    /\ Returned
    /\ Len(result[2]) >= 2
    /\ \E c \in Elems(Interactions(result[2][1])) : ~In(c, result[2])

C5_SingleSupplier ==
    (n = 1 /\ pc \notin {"create_suppliers", "create_blacklist"}) =>
        /\ Blacklist(1) = <<>>
        /\ Interactions(1) = <<>>
        /\ Returned => result = <<Dict[1].weight, <<1>>>>

\* C8 (invalid count): create_suppliers(n) with n < 1 ends in an error and never
\* returns a population.
C8_InvalidCount ==
    n < 1 => (pc = "create_suppliers" \/ outcome = "InvalidArgument")

\* C9 (dangling labels): the search of a population in which some list holds a label
\* that is no key of the population ends in an error, never in a result.
C9_DanglingFails ==
    pc = "done" => outcome # "returned"

IsScenario ==
    /\ DOMAIN Dict = 1..4
    /\ \A l \in 1..4 :
          /\ Dict[l].weight = ScenarioWeights[l]
          /\ Blacklist(l) = ScenarioBlack[l]
          /\ Interactions(l) = ScenarioWhite[l]

\* the state after the j-th candidate of seed s was evaluated
AfterEval(s, j) == pc = "affines" /\ supplier = s /\ k = j

Trace(set, cw, bw, best) ==
    /\ heap[current_set] = set
    /\ current_weight = cw * Thousandth
    /\ best_weight = bw * Thousandth
    /\ heap[best_set] = best

\* C6 (worked scenario): on the four suppliers of the scenario, seed 1 accepts 3 and
\* finds 4 blocked, with best 0.7 [1,3]; seed 2 accepts 3 and finds 4 blocked, with
\* best 1.1 [2,3]; seeds 3 and 4 accept 1, find 2 blocked and leave the best as it
\* is; the search returns (1.1, [2,3]).
C6_WorkedScenario ==
    IsScenario =>
        /\ AfterEval(1, 1) => Trace(<<1, 3>>, 700, 700, <<1, 3>>) /\ In(4, heap[interference])
        /\ AfterEval(1, 2) => Trace(<<1, 3>>, 700, 700, <<1, 3>>)
        /\ AfterEval(2, 1) => Trace(<<2, 3>>, 1100, 1100, <<2, 3>>) /\ In(4, heap[interference])
        /\ AfterEval(2, 2) => Trace(<<2, 3>>, 1100, 1100, <<2, 3>>)
        /\ AfterEval(3, 1) => Trace(<<3, 1>>, 700, 1100, <<2, 3>>) /\ In(2, heap[interference])
        /\ AfterEval(3, 2) => Trace(<<3, 1>>, 700, 1100, <<2, 3>>)
        /\ AfterEval(4, 1) => Trace(<<4, 1>>, 600, 1100, <<2, 3>>) /\ In(2, heap[interference])
        /\ AfterEval(4, 2) => Trace(<<4, 1>>, 600, 1100, <<2, 3>>)
        /\ pc = "done" => outcome = "returned" /\ result = <<1100 * Thousandth, <<2, 3>>>>

C6_Witness == IsScenario /\ Returned /\ result[2] = <<2, 3>>

\* C7 (tie-break and snapshot): during and after the search, the best weight and the
\* contents of the best set are the weight and the contents current_set had at the
\* last evaluation whose current_weight was >= the best weight before it, and the
\* returned set is those contents.
C7_TieBreakSnapshot ==
    /\ pc \in {"ExhaustiveSearch", "affines", "done"} =>
          /\ best_weight = lastEval.weight
          /\ heap[best_set] = lastEval.set
    /\ Returned => result[2] = lastEval.set

\* the returned set is that of a later seed than one whose final set weighs the same
C7_Witness ==
    /\ Returned
    /\ Len(result[2]) >= 2
    /\ \E s \in DOMAIN Dict :
          /\ s < result[2][1]
          /\ Len(heap[CS(s)]) >= 2
          /\ SumWeights(heap[CS(s)]) = result[1]

\* C10 (read-only population): no step of the search changes a supplier's label,
\* weight, blacklist or interactions.
C10_PopulationReadOnly ==
    [][/\ Dict' = Dict
       /\ \A l \in DOMAIN Dict :
             /\ heap'[Dict[l].blacklist] = heap[Dict[l].blacklist]
             /\ heap'[Dict[l].interactions] = heap[Dict[l].interactions]]_vars

\* a later seed is at work after the interference list of an earlier seed was
\* extended beyond that seed's blacklist
C10_Witness ==
    \E l \in DOMAIN Dict :
        /\ l < supplier
        /\ IF_(l) \in DOMAIN heap
        /\ Len(heap[IF_(l)]) > Len(Blacklist(l))
        /\ pc = "affines"
        /\ k >= 1

====
